---- MODULE Spec2Model ----
(***************************************************************************)
(* A model of the ndd estimator protocol (ndd/base.py) and of the data     *)
(* reshaping / combination layer (ndd/nsb.py).                             *)
(*                                                                         *)
(* Numbers.  The code works on IEEE doubles (numpy.float64) and on 32-bit  *)
(* integers (numpy.int32).  A number is modelled as a dyadic rational      *)
(* [n |-> mantissa, e |-> exponent] standing for n * 2^e, kept normalised  *)
(* (n odd, or n = 0 and e = 0), so that 2.5, 3.5, 2^31, 2^150 and 2^151    *)
(* are all values of the model.  Arithmetic on them is exact; rounding of  *)
(* doubles, NaN and the infinities are outside the model.                  *)
(***************************************************************************)
EXTENDS Integers, Sequences, FiniteSets, TLC

VARIABLES
    estimate_,   \* EntropyEstimator.estimate_ of the instance under test
    err_,        \* EntropyEstimator.err_ of the instance under test
    op,          \* the operation performed last ("init" before any)
    arg,         \* the arguments of that operation
    res,         \* what it returned or raised
    est          \* the invocation of estimator() made by that operation, if any

vars == <<estimate_, err_, op, arg, res, est>>

-----------------------------------------------------------------------------
(* Bounds of the model. *)

MaxMant == 7       \* scalar inputs have mantissas in -MaxMant..MaxMant
MaxSeqMant == 3    \* elements of sequences and arrays: mantissas up to MaxSeqMant
MaxLen == 2        \* length of a cardinality sequence / of a counts array
MaxBins == 1       \* bins of the counts arrays given to fit
MaxEst == 0        \* the abstract estimator returns values in 0..MaxEst
MaxCells == 4      \* elements of a data array
MaxHistCells == 6  \* elements of a data array given to histogram
MaxVal == 1        \* data values are 0..MaxVal
MaxRank == 3       \* rank of the data arrays

(* Program constants. *)

MAX_LOGK == 150    \* MAX_LOGK = 150 * numpy.log(2), in units of log(2)
Int32Bits == 31    \* numpy.int32 holds -2^31 .. 2^31 - 1

-----------------------------------------------------------------------------
(* Outcomes of a call. *)

Return(v) == [ok |-> TRUE, val |-> v]
Raise(e) == [ok |-> FALSE, err |-> e]

-----------------------------------------------------------------------------
(* Dyadic numbers. *)

RECURSIVE Norm(_)
Norm(x) ==
    IF x.n = 0 THEN [n |-> 0, e |-> 0]
    ELSE IF x.n % 2 = 0 THEN Norm([n |-> x.n \div 2, e |-> x.e + 1])
    ELSE x

Num(n, e) == Norm([n |-> n, e |-> e])

RECURSIVE Pow2(_)
Pow2(i) == IF i = 0 THEN 1 ELSE 2 * Pow2(i - 1)

\* float.is_integer()
is_integer(x) == x.e >= 0

IsNegative(x) == x.n < 0

\* x > 2^b for a normalised x (mantissas stay below 2^30)
GtPow2(x, b) ==
    /\ x.n > 0
    /\ IF x.e >= b THEN x.e > b \/ x.n > 1
       ELSE IF b - x.e > 30 THEN FALSE
       ELSE x.n > Pow2(b - x.e)

\* x >= 2^b
GePow2(x, b) == GtPow2(x, b) \/ x = Num(1, b)

Mul(x, y) == Num(x.n * y.n, x.e + y.e)

\* numpy.prod over a 1-D array
RECURSIVE prod(_)
prod(s) == IF s = <<>> THEN Num(1, 0) ELSE Mul(Head(s), prod(Tail(s)))

\* the value of a whole number that fits the model's integers
IntOf(x) == x.n * Pow2(x.e)

-----------------------------------------------------------------------------
(* Cardinalities as the callers pass them. *)

NoneK == [kind |-> "none"]
Scalar(x) == [kind |-> "scalar", v |-> x]
Sequence(s) == [kind |-> "seq", s |-> s]
NDArrayK == [kind |-> "nd"]            \* rank above 1
NotANumber == [kind |-> "str"]         \* numpy.float64 raises ValueError

\* numpy.log(x) > MAX_LOGK.  log of zero is -inf and log of a negative number is
\* nan: neither compares greater than MAX_LOGK.
LogExceeds(x) == x.n > 0 /\ GtPow2(x, MAX_LOGK)

\* numpy.sum(numpy.log(x) for x in k) > MAX_LOGK.  One element <= 0 makes the
\* sum -inf or nan, and the comparison false.
SumLogExceeds(s) ==
    /\ \A i \in 1..Len(s) : s[i].n > 0
    /\ GtPow2(prod(s), MAX_LOGK)

check_k(k) ==
    IF k.kind = "none" THEN Return(k)
    ELSE IF k.kind = "str" THEN Raise("CardinalityError")
    ELSE IF k.kind = "nd" THEN Raise("CardinalityError")
    ELSE IF k.kind = "seq" THEN
        IF SumLogExceeds(k.s) THEN Raise("CardinalityError")
        ELSE IF ~is_integer(prod(k.s)) THEN Raise("CardinalityError")
        ELSE Return(Scalar(prod(k.s)))
    ELSE
        IF LogExceeds(k.v) THEN Raise("CardinalityError")
        ELSE IF ~is_integer(k.v) THEN Raise("CardinalityError")
        ELSE Return(k)

-----------------------------------------------------------------------------
(* Arrays: numpy's shape and the elements in C order. *)

Array(shape, flat) == [shape |-> shape, flat |-> flat]
ndim(a) == Len(a.shape)

RECURSIVE size(_)
size(shape) == IF shape = <<>> THEN 1 ELSE Head(shape) * size(Tail(shape))

MapFlat(a, F(_)) == [i \in 1..Len(a.flat) |-> F(a.flat[i])]

-----------------------------------------------------------------------------
(* Counts. *)

Neg(x) == [n |-> -x.n, e |-> x.e]

\* the whole number nearest to x in the direction of zero
Trunc(x) ==
    IF x.e >= 0 THEN x
    ELSE IF x.n >= 0 THEN Num(x.n \div Pow2(-x.e), 0)
    ELSE Num(-((-x.n) \div Pow2(-x.e)), 0)

InInt32(x) == ~GePow2(x, Int32Bits) /\ ~GtPow2(Neg(x), Int32Bits)

INT32_MIN == Num(-1, Int32Bits)
INT32_MAX == Num(Pow2(Int32Bits - 1) - 1 + Pow2(Int32Bits - 1), 0)

\* x modulo 2^32 as a signed 32-bit integer, for a whole x outside the range
\* (so that x.e >= 1)
Wrap32(x) ==
    IF x.e > Int32Bits THEN Num(0, 0)
    ELSE LET half == Pow2(Int32Bits - x.e)
             m == x.n % half
             bit == (x.n \div half) % 2
         IN  Num(m - bit * half, x.e)

\* What a conversion of an out-of-range double to int32 can produce.  C leaves
\* it undefined; builds produce the "integer indefinite" value (x86), the
\* saturated value (ARM) or the low 32 bits (conversion through int64).
Int32Outcomes == {"indefinite", "saturate", "wrap"}

\* numpy.int32(x) for one double; ub names the outcome of the build for an
\* out-of-range x
int32(x, ub) ==
    LET t == Trunc(x) IN
    IF InInt32(t) THEN t
    ELSE IF ub = "indefinite" THEN INT32_MIN
    ELSE IF ub = "saturate" THEN (IF t.n > 0 THEN INT32_MAX ELSE INT32_MIN)
    ELSE Wrap32(t)

\* EntropyEstimator.check_pk
check_pk(a, ub) ==
    LET flat == a.flat
        not_integers == ~(\A i \in 1..Len(flat) : is_integer(flat[i]))
        negative == \E i \in 1..Len(flat) : IsNegative(flat[i])
    IN  IF not_integers THEN Raise("CountsError")
        ELSE IF negative THEN Raise("CountsError")
        ELSE Return(Array(<<Len(flat)>>, [i \in 1..Len(flat) |-> int32(flat[i], ub)]))

\* MultiPMFEstimator.check_pk
check_pk_multi(a, ub) ==
    LET not_integers == ~(\A i \in 1..Len(a.flat) : is_integer(a.flat[i]))
        negative == \E i \in 1..Len(a.flat) : IsNegative(a.flat[i])
    IN  IF Len(a.shape) # 2 THEN Raise("CountsError")
        ELSE IF not_integers THEN Raise("CountsError")
        ELSE IF negative THEN Raise("CountsError")
        ELSE Return(Array(a.shape, [i \in 1..Len(a.flat) |-> int32(a.flat[i], ub)]))

-----------------------------------------------------------------------------
(* Inputs. *)

Exponents == {-1, 0, MAX_LOGK - 1, MAX_LOGK, MAX_LOGK + 1}

ScalarInputs == {Num(n, e) : n \in -MaxMant..MaxMant, e \in Exponents}
ElementInputs == {Num(n, e) : n \in -MaxSeqMant..MaxSeqMant, e \in Exponents}

SeqsUpTo(S, len) == UNION {[1..l -> S] : l \in 0..len}

KInputs ==
    {NoneK, NDArrayK, NotANumber}
    \cup {Scalar(x) : x \in ScalarInputs}
    \cup {Sequence(s) : s \in SeqsUpTo(ElementInputs, MaxLen)}

\* counts: fractions, small counts and counts around the int32 limit
CountExponents == {-1, 0, Int32Bits - 1, Int32Bits}
CountInputs == {Num(n, e) : n \in {-1, 0, 1, MaxSeqMant}, e \in CountExponents}

\* shapes of rank 1 to 3 with at most MaxLen elements
PkShapes ==
    {<<l>> : l \in 0..MaxLen}
    \cup {<<a, b>> : a \in 1..MaxLen, b \in 1..MaxLen}
    \cup {<<a, b, c>> : a \in 1..MaxLen, b \in 1..MaxLen, c \in 1..MaxLen}

ArraysOver(shapes, S, cells) ==
    UNION {{Array(sh, f) : f \in [1..size(sh) -> S]} : sh \in {s \in shapes : size(s) <= cells}}

PkInputs == ArraysOver(PkShapes, CountInputs, MaxLen)

NoCall == [invoked |-> FALSE]
NoneValue == [kind |-> "None"]

-----------------------------------------------------------------------------
(* check_k as an operation. *)

InitCheckK ==
    /\ estimate_ = NoneValue
    /\ err_ = NoneValue
    /\ op = "init"
    /\ arg \in KInputs
    /\ res = Return(NoneValue)
    /\ est = NoCall

CheckK ==
    /\ op = "init"
    /\ op' = "check_k"
    /\ res' = check_k(arg)
    /\ UNCHANGED <<estimate_, err_, arg, est>>

SpecCheckK == InitCheckK /\ [][CheckK]_vars

\* the cardinality a caller means by k: the scalar, or the product of the sequence
Cardinality_(k) == IF k.kind = "seq" THEN prod(k.s) ELSE k.v

PositiveWholeInBound(x) == x.n > 0 /\ x.e >= 0 /\ ~GtPow2(x, MAX_LOGK)

\* C4: check_k(None) returns None; for any other k, check_k accepts exactly the
\* positive whole-number cardinalities (a scalar, or a 1-D sequence taken as its
\* product) not larger than 2^150, returns that cardinality, and raises
\* CardinalityError for every other value (negative or zero, not whole, too
\* large, rank above 1, not a number).
C4_CheckKAcceptsExactlyValid ==
    op = "check_k" =>
        IF arg.kind = "none" THEN res = Return(NoneK)
        ELSE IF arg.kind \in {"scalar", "seq"} /\ PositiveWholeInBound(Cardinality_(arg))
             THEN res = Return(Scalar(Cardinality_(arg)))
             ELSE res = Raise("CardinalityError")

-----------------------------------------------------------------------------
(* check_pk as an operation. *)

InitCheckPk ==
    /\ estimate_ = NoneValue
    /\ err_ = NoneValue
    /\ op = "init"
    /\ arg \in PkInputs
    /\ res = Return(NoneValue)
    /\ est = NoCall

CheckPk ==
    /\ op = "init"
    /\ op' = "check_pk"
    /\ \E ub \in Int32Outcomes : res' = check_pk(arg, ub)
    /\ UNCHANGED <<estimate_, err_, arg, est>>

CheckPkMulti ==
    /\ op = "init"
    /\ op' = "check_pk_multi"
    /\ \E ub \in Int32Outcomes : res' = check_pk_multi(arg, ub)
    /\ UNCHANGED <<estimate_, err_, arg, est>>

NextCheckPk == CheckPk \/ CheckPkMulti

SpecCheckPk == InitCheckPk /\ [][NextCheckPk]_vars

ValidCounts(a) == \A i \in 1..Len(a.flat) : a.flat[i].e >= 0 /\ a.flat[i].n >= 0

\* C5: check_pk raises CountsError if and only if some element is not a whole
\* number or is negative (the multi-distribution check_pk also when the rank is
\* not 2); otherwise it returns 32-bit integers equal in value to the input's
\* elements, whatever their magnitude.
C5_CheckPkKeepsValues ==
    /\ op = "check_pk" =>
           IF ValidCounts(arg)
           THEN res.ok /\ res.val.flat = arg.flat /\ \A i \in 1..Len(arg.flat) : InInt32(res.val.flat[i])
           ELSE res = Raise("CountsError")
    /\ op = "check_pk_multi" =>
           IF ValidCounts(arg) /\ Len(arg.shape) = 2
           THEN res.ok /\ res.val.flat = arg.flat /\ \A i \in 1..Len(arg.flat) : InInt32(res.val.flat[i])
           ELSE res = Raise("CountsError")

-----------------------------------------------------------------------------
(* The estimator protocol: EntropyEstimator.fit and MultiPMFEstimator.fit. *)

Float(v) == [kind |-> "float", v |-> v]
Pair(estimate, err) == [kind |-> "pair", estimate |-> estimate, err |-> err]
Self == [kind |-> "self"]

\* a new estimator: EntropyEstimator.__init__
NewEstimator == [estimate_ |-> NoneValue, err_ |-> NoneValue]

\* The abstract method estimator(pk, k).  An algorithm is either one that
\* returns a given value (any subclass), or the entropy estimator of
\* ndd.estimators, a deterministic function of (pk, k) that returns an
\* (estimate, uncertainty) pair.
Algorithm(ret) == [kind |-> "returns", ret |-> ret]
EntropyAlgorithm == [kind |-> "entropy"]
H(pk, k) == [kind |-> "H", pk |-> pk, k |-> k]
Std(pk, k) == [kind |-> "std", pk |-> pk, k |-> k]

\* ndd.estimators.Entropy.estimator: deterministic in (pk, k)
entropy_estimator(pk, k) == Pair(H(pk.flat, k), Std(pk.flat, k))

estimator(algo, pk, k) ==
    IF algo.kind = "returns" THEN algo.ret ELSE entropy_estimator(pk, k)

\* self.estimate_, self.err_ = estimate, and the TypeError fallback
store(self, estimate) ==
    IF estimate.kind = "pair"
    THEN [estimate_ |-> estimate.estimate, err_ |-> estimate.err]
    ELSE [estimate_ |-> estimate, err_ |-> self.err_]

Invoked(pk, k, ret) == [invoked |-> TRUE, pk |-> pk, k |-> k, ret |-> ret]

\* fit as it would be if it supplied the default itself (k = len(pk))
fit_defaulting_k(self, algo, pk, k, ub) ==
    LET r1 == check_pk(pk, ub) IN
    IF ~r1.ok THEN [self |-> self, res |-> r1, est |-> NoCall]
    ELSE LET r2 == check_k(IF k = NoneK THEN Scalar(Num(Len(r1.val.flat), 0)) ELSE k) IN
         IF ~r2.ok THEN [self |-> self, res |-> r2, est |-> NoCall]
         ELSE LET estimate == estimator(algo, r1.val, r2.val) IN
              [self |-> store(self, estimate),
               res |-> Return(Self),
               est |-> Invoked(r1.val, r2.val, estimate)]

\* fit as it would be if k were validated only after the algorithm has run
fit_validating_k_late(self, algo, pk, k, ub) ==
    LET r1 == check_pk(pk, ub) IN
    IF ~r1.ok THEN [self |-> self, res |-> r1, est |-> NoCall]
    ELSE LET estimate == estimator(algo, r1.val, k)
             r2 == check_k(k)
         IN  IF ~r2.ok
             THEN [self |-> store(self, estimate), res |-> r2,
                   est |-> Invoked(r1.val, k, estimate)]
             ELSE [self |-> store(self, estimate), res |-> Return(Self),
                   est |-> Invoked(r1.val, r2.val, estimate)]

\* EntropyEstimator.fit: the instance after the call, what the call returned
\* or raised, and the invocation of estimator() it made
fit(self, algo, pk, k, ub) ==
    LET r1 == check_pk(pk, ub) IN
    IF ~r1.ok THEN [self |-> self, res |-> r1, est |-> NoCall]
    ELSE LET r2 == check_k(k) IN
         IF ~r2.ok THEN [self |-> self, res |-> r2, est |-> NoCall]
         ELSE LET estimate == estimator(algo, r1.val, r2.val) IN
              [self |-> store(self, estimate),
               res |-> Return(Self),
               est |-> Invoked(r1.val, r2.val, estimate)]

\* MultiPMFEstimator.fit
fit_multi(self, algo, pk, k, ub) ==
    LET r1 == check_pk_multi(pk, ub) IN
    IF ~r1.ok THEN [self |-> self, res |-> r1, est |-> NoCall]
    ELSE LET r2 == check_k(k) IN
         IF ~r2.ok THEN [self |-> self, res |-> r2, est |-> NoCall]
         ELSE LET estimate == estimator(algo, r1.val, r2.val) IN
              [self |-> store(self, estimate),
               res |-> Return(Self),
               est |-> Invoked(r1.val, r2.val, estimate)]

\* EntropyEstimator.__call__
call(self, algo, pk, k, ub) ==
    LET f == fit(self, algo, pk, k, ub) IN
    IF f.res.ok THEN Return(f.self.estimate_) ELSE f.res

(* Inputs of fit. *)

FitCounts == {Num(1, 0), Num(1, -1), Num(-1, 0)}
FitShapes == {<<l>> : l \in 1..MaxBins} \cup {<<1, l>> : l \in 1..MaxBins}
FitPkInputs == ArraysOver(FitShapes, FitCounts, MaxBins)
FitKInputs ==
    {NoneK, Scalar(Num(MaxBins, 0)), Scalar(Num(1, -1)), Scalar(Num(1, MAX_LOGK + 1))}

EstimateValues == {Float(v) : v \in 0..MaxEst}
EstimatorReturns ==
    EstimateValues
    \cup {Pair(v, e) : v \in EstimateValues, e \in EstimateValues \cup {NoneValue}}

\* the outcomes of the int32 conversion that differ for this array
OutcomesFor(pk) ==
    IF \A i \in 1..Len(pk.flat) : InInt32(Trunc(pk.flat[i]))
    THEN {"indefinite"} ELSE Int32Outcomes

Init ==
    /\ estimate_ = NewEstimator.estimate_
    /\ err_ = NewEstimator.err_
    /\ op = "init"
    /\ arg = [pk |-> Array(<<0>>, <<>>), k |-> NoneK]
    /\ res = Return(NoneValue)
    /\ est = NoCall

Fit ==
    \E pk \in FitPkInputs, k \in FitKInputs, ret \in EstimatorReturns :
        \E ub \in OutcomesFor(pk) :
            LET f == fit([estimate_ |-> estimate_, err_ |-> err_], Algorithm(ret), pk, k, ub) IN
            /\ op' = "fit"
            /\ arg' = [pk |-> pk, k |-> k]
            /\ estimate_' = f.self.estimate_
            /\ err_' = f.self.err_
            /\ res' = f.res
            /\ est' = f.est

FitMulti ==
    \E pk \in FitPkInputs, k \in FitKInputs, ret \in EstimatorReturns :
        \E ub \in OutcomesFor(pk) :
            LET f == fit_multi([estimate_ |-> estimate_, err_ |-> err_], Algorithm(ret), pk, k, ub) IN
            /\ op' = "fit_multi"
            /\ arg' = [pk |-> pk, k |-> k]
            /\ estimate_' = f.self.estimate_
            /\ err_' = f.self.err_
            /\ res' = f.res
            /\ est' = f.est

Next == Fit \/ FitMulti

Spec == Init /\ [][Next]_vars

FitOps == {"fit", "fit_multi"}

\* the counts the caller passed are valid for the protocol of the call
AcceptedPk == ValidCounts(arg.pk) /\ (op = "fit_multi" => Len(arg.pk.shape) = 2)

\* the number of bins of pk (fit), its column count (fit_multi)
Bins == IF op = "fit" THEN Len(arg.pk.flat) ELSE arg.pk.shape[2]

\* C1: fit(pk) with k omitted invokes estimator(pk, k) with k equal to the
\* number of bins of pk (the column count for the multi-distribution
\* protocol); the algorithm never receives an absent k.
C1_DefaultKIsBins ==
    (op \in FitOps /\ arg.k = NoneK /\ AcceptedPk) =>
        est.invoked /\ est.k = Scalar(Num(Bins, 0))

\* C1 as the code has it: fit(pk) with k omitted, on valid counts, invokes
\* estimator(pk, k) with the validated counts and with k absent (None): check_k
\* passes None through and fit supplies no default.
C1_OmittedKReachesEstimator ==
    (op \in FitOps /\ arg.k = NoneK /\ AcceptedPk) =>
        /\ est.invoked
        /\ est.k = NoneK
        /\ est.pk.flat = arg.pk.flat
        /\ est.pk.shape = (IF op = "fit" THEN <<Len(arg.pk.flat)>> ELSE arg.pk.shape)

C1_Witness == op = "fit_multi" /\ arg.k = NoneK /\ est.invoked /\ est.k = NoneK

\* C2: after a successful fit the stored result is that of the last call:
\* estimate_ is the estimate the last invocation of estimator() returned and
\* err_ is the uncertainty it returned, or None if it returned a single value.
C2_StoredResultIsLastCall ==
    (op \in FitOps /\ est.invoked) =>
        IF est.ret.kind = "pair"
        THEN estimate_ = est.ret.estimate /\ err_ = est.ret.err
        ELSE estimate_ = est.ret /\ err_ = NoneValue

\* the call that leads to the next state is rejected by check_pk or by check_k
Rejected ==
    \/ \A ub \in Int32Outcomes :
           ~(IF op' = "fit" THEN check_pk(arg'.pk, ub) ELSE check_pk_multi(arg'.pk, ub)).ok
    \/ ~check_k(arg'.k).ok

\* C3: pk and k are validated before the algorithm runs: a fit call whose pk is
\* rejected by check_pk, or whose k is rejected by check_k, raises CountsError
\* or CardinalityError, does not invoke estimator(), and leaves estimate_ and
\* err_ as they were before the call.
C3_RejectedFitChangesNothing ==
    [][Rejected =>
          /\ ~res'.ok
          /\ res'.err \in {"CountsError", "CardinalityError"}
          /\ est' = NoCall
          /\ estimate_' = estimate_
          /\ err_' = err_]_vars

C3_Witness == op = "fit" /\ ~res.ok /\ res.err = "CardinalityError" /\ estimate_ # NoneValue

-----------------------------------------------------------------------------
(* Array reshaping (numpy) as nsb.py uses it. *)

None == <<>>
Some(i) == <<i>>

\* the index tuple (0-based) of the element at 0-based position pos, and back
RECURSIVE Unravel(_, _)
Unravel(pos, shape) ==
    IF shape = <<>> THEN <<>>
    ELSE LET rest == size(Tail(shape)) IN
         <<pos \div rest>> \o Unravel(pos % rest, Tail(shape))

RECURSIVE Ravel(_, _)
Ravel(idx, shape) ==
    IF shape = <<>> THEN 0
    ELSE Head(idx) * size(Tail(shape)) + Ravel(Tail(idx), Tail(shape))

Swap(s, i, j) == [x \in 1..Len(s) |-> IF x = i THEN s[j] ELSE IF x = j THEN s[i] ELSE s[x]]

\* numpy.swapaxes(a, i, j) for valid 0-based axes i, j
swapaxes(a, i, j) ==
    LET shape == Swap(a.shape, i + 1, j + 1) IN
    Array(shape,
          [q \in 1..Len(a.flat) |->
              a.flat[1 + Ravel(Swap(Unravel(q - 1, shape), i + 1, j + 1), a.shape)]])

\* ar.T of a 2-D array
T(a) == swapaxes(a, 0, 1)

\* a[i] of a 2-D array (1-based row i)
Row(a, i) == SubSeq(a.flat, (i - 1) * a.shape[2] + 1, i * a.shape[2])

\* numpy's normalisation of an axis index; -1 when the axis is out of range
NormAxis(axis, rank) ==
    IF axis >= 0 /\ axis < rank THEN axis
    ELSE IF axis < 0 /\ axis >= -rank THEN axis + rank
    ELSE -1

\* as_data_array with the transposition of a 2-D array keyed to the wrong axes
as_data_array_transposing_other_axes(ar, axis) ==
    IF ndim(ar) = 1 THEN Return(Array(<<1, ar.shape[1]>>, ar.flat))
    ELSE IF ndim(ar) = 2 THEN Return(IF axis # Some(0) THEN T(ar) ELSE ar)
    ELSE Raise("AxisError")

\* nsb.as_data_array
as_data_array(ar, axis) ==
    IF ndim(ar) = 1 THEN Return(Array(<<1, ar.shape[1]>>, ar.flat))
    ELSE IF ndim(ar) = 2 THEN Return(IF axis = Some(0) THEN T(ar) ELSE ar)
    ELSE
        IF axis = None THEN Raise("TypeError")    \* swapaxes(ar, None, 0)
        ELSE IF axis # Some(0) /\ NormAxis(axis[1], ndim(ar)) = -1 THEN Raise("AxisError")
        ELSE LET sw == IF axis # Some(0)
                       THEN swapaxes(ar, NormAxis(axis[1], ndim(ar)), 0)
                       ELSE ar
                 n == sw.shape[1]
             IN  Return(T(Array(<<n, Len(sw.flat) \div n>>, sw.flat)))

-----------------------------------------------------------------------------
(* Histograms. *)

\* a < b in the lexicographic order of equally long tuples
RECURSIVE LexLess(_, _)
LexLess(a, b) ==
    IF a = <<>> THEN FALSE
    ELSE IF Head(a) # Head(b) THEN Head(a) < Head(b)
    ELSE LexLess(Tail(a), Tail(b))

\* the elements of a set of tuples in increasing lexicographic order
RECURSIVE SortLex(_)
SortLex(S) ==
    IF S = {} THEN <<>>
    ELSE LET m == CHOOSE x \in S : \A y \in S \ {x} : LexLess(x, y) IN
         <<m>> \o SortLex(S \ {m})

\* column j of a 2-D array
Column(a, j) == [i \in 1..a.shape[1] |-> a.flat[(i - 1) * a.shape[2] + j]]

\* numpy.unique(data, return_counts=True, axis=1)[1]
unique_counts(data) ==
    LET cols == {Column(data, j) : j \in 1..data.shape[2]}
        sorted == SortLex(cols)
    IN  [i \in 1..Len(sorted) |->
            Cardinality({j \in 1..data.shape[2] : Column(data, j) = sorted[i]})]

\* len(numpy.unique(v)) of a 1-D sequence
n_unique(v) == Cardinality({v[i] : i \in 1..Len(v)})

\* itertools.combinations(lo..p, r): r-tuples of indices, in lexicographic order
RECURSIVE combinations_from(_, _, _)
combinations_from(lo, p, r) ==
    IF r = 0 THEN << <<>> >>
    ELSE IF lo > p THEN <<>>
    ELSE LET with == combinations_from(lo + 1, p, r - 1) IN
         [i \in 1..Len(with) |-> <<lo>> \o with[i]] \o combinations_from(lo + 1, p, r)

combinations_reversed(p, r) ==
    LET c == combinations_from(1, p, r) IN [i \in 1..Len(c) |-> c[Len(c) + 1 - i]]

combinations(p, r) == combinations_from(1, p, r)

\* numpy.asanyarray of a tuple of rows of a 2-D array
RECURSIVE Concat(_)
Concat(ss) == IF ss = <<>> THEN <<>> ELSE Head(ss) \o Concat(Tail(ss))

Stack(data, rows) ==
    Array(<<Len(rows), data.shape[2]>>, Concat([i \in 1..Len(rows) |-> Row(data, rows[i])]))

Counts(c) == [kind |-> "counts", counts |-> c]
Generator(items) == [kind |-> "generator", items |-> items]

\* nsb.histogram with r = 0 on an array
histogram0(data, axis) ==
    LET d == as_data_array(data, axis) IN
    IF ~d.ok THEN d ELSE Return(Counts(unique_counts(d.val)))

\* nsb.histogram.  For r > 0 the result is a generator; items[i] is the
\* outcome of its i-th step.
histogram(data, axis, r) ==
    LET d == as_data_array(data, axis) IN
    IF ~d.ok THEN d
    ELSE LET p == d.val.shape[1] IN
         IF r > p THEN Raise("HistogramError")
         ELSE IF r = 0 THEN Return(Counts(unique_counts(d.val)))
         ELSE LET cs == combinations(p, r) IN
              Return(Generator([i \in 1..Len(cs) |->
                                   histogram0(Stack(d.val, cs[i]), Some(1))]))

-----------------------------------------------------------------------------
(* Estimates from data. *)

\* The estimates are kept symbolic: H(pk, k) is the estimate of the entropy
\* estimator for the counts pk and the cardinality k.  Sums of estimates are
\* linear combinations of such terms: functions from terms to non-zero
\* integer coefficients.
LinZero == [t \in {} |-> 0]
LinOf(term) == [t \in {term} |-> 1]
Coeff(a, t) == IF t \in DOMAIN a THEN a[t] ELSE 0
LinAdd(a, b) ==
    [t \in {u \in DOMAIN a \cup DOMAIN b : Coeff(a, u) + Coeff(b, u) # 0} |->
        Coeff(a, t) + Coeff(b, t)]
LinScale(c, a) == IF c = 0 THEN LinZero ELSE [t \in DOMAIN a |-> c * a[t]]
Lin(a) == [kind |-> "sum", terms |-> a]

\* numpy.float64 of an array of Python / numpy integers
AsFloats(c) == Array(<<Len(c)>>, [i \in 1..Len(c) |-> Num(c[i], 0)])

\* cardinalities whose product is the number of joint values observed in ar
observed_ks_joint(a) ==
    Sequence([i \in 1..a.shape[1] |->
                 Num(IF i = 1 THEN Len(unique_counts(a)) ELSE 1, 0)])

\* [len(numpy.unique(v)) for v in ar]
observed_ks(a) == Sequence([i \in 1..a.shape[1] |-> Num(n_unique(Row(a, i)), 0)])

\* numpy.prod(x) for the i-th element x of combinations(ks, r)
alphabet_size(ks, comb) == Scalar(prod([i \in 1..Len(comb) |-> ks.s[comb[i]]]))

\* estimator(counts, k=k) on the Entropy() instance of one from_data call.  The
\* value returned is the estimate_ of this very fit, whatever the instance
\* held before.  The counts of a histogram are within the int32 range.
estimate_of(counts, k) ==
    call(NewEstimator, EntropyAlgorithm, AsFloats(counts), k, "indefinite")

\* ks after its checks in from_data: the cardinalities observed in the data
\* if ks is None
from_data_ks(data, ks) ==
    IF ks = NoneK THEN Return(observed_ks(data))
    ELSE IF ks.kind = "str" THEN Raise("CardinalityError")
    ELSE IF ks.kind = "seq" /\ Len(ks.s) # data.shape[1] THEN Raise("CardinalityError")
    ELSE Return(ks)

\* estimator(counts, k=k) on the outcome c of a histogram call
from_counts(c, k) == IF ~c.ok THEN c ELSE estimate_of(c.val.counts, k)

\* the generator of from_data for r > 0 over the combinations cs; items[i] is
\* the outcome of its i-th step
from_combinations(h, ks, cs) ==
    IF ~h.ok THEN h
    ELSE Return(Generator([i \in 1..Len(cs) |->
                              from_counts(h.val.items[i], alphabet_size(ks, cs[i]))]))

\* from_data on the p-by-n array data with the checked cardinalities ks1
from_data_array(data, ks1, r) ==
    IF ~ks1.ok THEN ks1
    ELSE IF r = 0 THEN from_counts(histogram(data, Some(1), 0), ks1.val)
    ELSE IF ks1.val.kind = "scalar" THEN Raise("CardinalityError")
    ELSE from_combinations(histogram(data, Some(1), r), ks1.val,
                           combinations(data.shape[1], r))

\* from_data after as_data_array, d being the outcome of that call
from_data_reshaped(d, ks, r) ==
    IF ~d.ok THEN d ELSE from_data_array(d.val, from_data_ks(d.val, ks), r)

\* nsb.from_data.  ks is None, a scalar, a 1-D sequence or not a number.
from_data(ar, ks, axis, r) == from_data_reshaped(as_data_array(ar, axis), ks, r)

\* numpy.sum over the generator from_data returned: the sum of the estimates,
\* or the first error met while consuming it
RECURSIVE sum_items(_)
sum_items(items) ==
    IF items = <<>> THEN Return(LinZero)
    ELSE IF ~Head(items).ok THEN Head(items)
    ELSE LET rest == sum_items(Tail(items)) IN
         IF ~rest.ok THEN rest
         ELSE Return(LinAdd(LinOf(Head(items).val), rest.val))

\* numpy.sum(from_data(...)), f being the outcome of the from_data call
mmi_sum(f) == IF ~f.ok THEN f ELSE sum_items(f.val.items)

\* info += sgn * s, followed by the rest of the loop
mmi_add(sgn, s, rest) ==
    IF ~s.ok THEN s
    ELSE IF ~rest.ok THEN rest
    ELSE Return(LinAdd(LinScale(sgn, s.val), rest.val))

\* the loop of mmi from ri up to p: info after the loop, or the error raised
RECURSIVE mmi_loop(_, _, _, _)
mmi_loop(X, k, ri, p) ==
    IF ri > p THEN Return(LinZero)
    ELSE mmi_add(IF ri % 2 = 0 THEN 1 ELSE -1,
                 mmi_sum(from_data(X, k, None, ri)),
                 mmi_loop(X, k, ri + 1, p))

\* return c * info
mmi_return(c, info) == IF ~info.ok THEN info ELSE Return(Lin(LinScale(c, info.val)))

\* mmi without the final change of sign
mmi_returning_info(X, k, p) == mmi_return(1, mmi_loop(X, k, 1, p))

\* mmi of nsb.mutual_information; p is the variable count of the outer call
mmi(X, k, p) == mmi_return(-1, mmi_loop(X, k, 1, p))

\* ks after its checks in mutual_information
mutual_information_ks(data, ks) ==
    IF ks = NoneK THEN Return(observed_ks(data))
    ELSE IF ks.kind = "str" THEN Raise("CardinalityError")
    ELSE IF ks.kind = "seq" THEN Raise("CardinalityError")
    ELSE Return(ks)

\* the generator of mutual_information for r > 0 over the combinations cs
mmi_combinations(data, ks, cs) ==
    Return(Generator([i \in 1..Len(cs) |->
                         mmi(Stack(data, cs[i]), alphabet_size(ks, cs[i]),
                             data.shape[1])]))

\* mutual_information on the p-by-n array data with the checked ks1
mutual_information_array(data, ks1, r) ==
    IF ~ks1.ok THEN ks1
    ELSE IF r = 0 THEN mmi(data, ks1.val, data.shape[1])
    \* combinations(ks, r=r) runs at once: a 0-d ks cannot be iterated
    ELSE IF ks1.val.kind = "scalar" THEN Raise("TypeError")
    ELSE mmi_combinations(data, ks1.val, combinations(data.shape[1], r))

\* mutual_information after as_data_array, d being the outcome of that call
mutual_information_reshaped(d, ks, r) ==
    IF ~d.ok THEN d
    ELSE mutual_information_array(d.val, mutual_information_ks(d.val, ks), r)

\* nsb.mutual_information.  ks is None, a scalar, a 1-D sequence or not a number.
mutual_information(ar, ks, axis, r) ==
    mutual_information_reshaped(as_data_array(ar, axis), ks, r)

-----------------------------------------------------------------------------
(* The data layer as operations. *)

DataValues == 0..MaxVal

RECURSIVE ShapesOfRank(_, _)
ShapesOfRank(rank, cells) ==
    IF rank = 0 THEN {<<>>}
    ELSE {<<d>> \o s : d \in 1..cells, s \in ShapesOfRank(rank - 1, cells)}

DataShapes == UNION {ShapesOfRank(rank, MaxCells) : rank \in 1..MaxRank}

\* tables (samples x variables or variables x samples) and single variables
TableShapes == ShapesOfRank(1, MaxHistCells) \cup ShapesOfRank(2, MaxHistCells)

DataInputs == ArraysOver(DataShapes, DataValues, MaxCells)
TableInputs == ArraysOver(TableShapes, DataValues, MaxHistCells)

AxisInputs == {None} \cup {Some(i) : i \in -(MaxRank + 1)..MaxRank}
SampleAxes == {Some(0), Some(1)}

InitData ==
    /\ estimate_ = NoneValue
    /\ err_ = NoneValue
    /\ op = "init"
    /\ arg \in {[ar |-> a] : a \in DataInputs}
    /\ res = Return(NoneValue)
    /\ est = NoCall

AsDataArray ==
    /\ op = "init"
    /\ \E axis \in AxisInputs :
        /\ op' = "as_data_array"
        /\ arg' = [ar |-> arg.ar, axis |-> axis]
        /\ res' = as_data_array(arg.ar, axis)
    /\ UNCHANGED <<estimate_, err_, est>>

\* the number of variables of the data under the sample axis axis (0 if none)
Variables(ar, axis) ==
    LET d == as_data_array(ar, axis) IN IF d.ok THEN d.val.shape[1] ELSE 0

InitHistogram ==
    /\ estimate_ = NoneValue
    /\ err_ = NoneValue
    /\ op = "init"
    /\ arg \in {[ar |-> a] : a \in TableInputs}
    /\ res = Return(NoneValue)
    /\ est = NoCall

Histogram ==
    /\ op = "init"
    /\ \E axis \in SampleAxes :
         \E r \in 0..(Variables(arg.ar, axis) + 1) :
            /\ op' = "histogram"
            /\ arg' = [ar |-> arg.ar, axis |-> axis, r |-> r]
            /\ res' = histogram(arg.ar, axis, r)
    /\ UNCHANGED <<estimate_, err_, est>>

\* the cardinalities a caller of from_data / mutual_information passes for p variables
\* None, a scalar, one cardinality per variable, one cardinality too many, and
\* one per variable with the last at the bound of check_k
KsInputs(p) ==
    {NoneK, Scalar(Num(2, 0)),
     Sequence([i \in 1..p |-> Num(2, 0)]),
     Sequence([i \in 1..(p + 1) |-> Num(2, 0)]),
     Sequence([i \in 1..p |-> IF i = p THEN Num(1, MAX_LOGK) ELSE Num(2, 0)])}

FromData ==
    /\ op = "init"
    /\ ndim(arg.ar) <= 2
    /\ \E axis \in SampleAxes :
         \E r \in 0..(Variables(arg.ar, axis) + 1), ks \in KsInputs(Variables(arg.ar, axis)) :
            /\ op' = "from_data"
            /\ arg' = [ar |-> arg.ar, ks |-> ks, axis |-> axis, r |-> r]
            /\ res' = from_data(arg.ar, ks, axis, r)
    /\ UNCHANGED <<estimate_, err_, est>>

MutualInformation ==
    /\ op = "init"
    /\ ndim(arg.ar) <= 2
    /\ \E axis \in SampleAxes :
         \E r \in 0..(Variables(arg.ar, axis) + 1), ks \in KsInputs(Variables(arg.ar, axis)) :
            /\ op' = "mutual_information"
            /\ arg' = [ar |-> arg.ar, ks |-> ks, axis |-> axis, r |-> r]
            /\ res' = mutual_information(arg.ar, ks, axis, r)
    /\ UNCHANGED <<estimate_, err_, est>>

NextData == AsDataArray \/ FromData \/ MutualInformation

SpecHistogram == InitHistogram /\ [][Histogram]_vars

SpecData == InitData /\ [][NextData]_vars

\* element (i, j), 1-based, of a 2-D array
At(a, i, j) == a.flat[(i - 1) * a.shape[2] + j]

IsTransposeOf(b, a) ==
    /\ b.shape = <<a.shape[2], a.shape[1]>>
    /\ \A i \in 1..a.shape[1], j \in 1..a.shape[2] : At(b, j, i) = At(a, i, j)

\* C6: as_data_array returns a 2-D array; a rank-1 input of n elements becomes
\* one row of n samples, and a rank-2 input is returned untransposed with
\* axis == 0 and transposed with any other axis.
C6_TransposedUnlessAxis0 ==
    (op = "as_data_array" /\ res.ok) =>
        /\ ndim(res.val) = 2
        /\ ndim(arg.ar) = 1 => res.val = Array(<<1, Len(arg.ar.flat)>>, arg.ar.flat)
        /\ ndim(arg.ar) = 2 =>
              IF arg.axis = Some(0) THEN res.val = arg.ar ELSE IsTransposeOf(res.val, arg.ar)

\* C6 as the code has it: as_data_array returns a 2-D array; a rank-1 input of
\* n elements becomes one row of n samples; a rank-2 input is transposed when
\* axis == 0 and returned as it is with any other axis.
C6_TransposedWhenAxis0 ==
    (op = "as_data_array" /\ res.ok) =>
        /\ ndim(res.val) = 2
        /\ ndim(arg.ar) = 1 => res.val = Array(<<1, Len(arg.ar.flat)>>, arg.ar.flat)
        /\ ndim(arg.ar) = 2 =>
              IF arg.axis = Some(0) THEN IsTransposeOf(res.val, arg.ar) ELSE res.val = arg.ar

C6_Witness ==
    /\ op = "as_data_array" /\ res.ok
    /\ arg.axis = Some(0)
    /\ arg.ar = Array(<<2, 2>>, <<0, 1, 0, 0>>)
    /\ res.val = Array(<<2, 2>>, <<0, 0, 1, 0>>)

ValidAxis(axis, rank) == axis # None /\ axis[1] >= -rank /\ axis[1] < rank

\* C7: as_data_array raises AxisError, for an input of any rank, whenever axis
\* is an integer that is not a valid axis index of ar.
C7_InvalidAxisRaises ==
    (op = "as_data_array" /\ arg.axis # None /\ ~ValidAxis(arg.axis, ndim(arg.ar))) =>
        res = Raise("AxisError")

\* the axis check that the code does make: for rank 3 and more
C7_InvalidAxisRaisesAboveRank2 ==
    (op = "as_data_array" /\ arg.axis # None /\ ndim(arg.ar) > 2) =>
        (res = Raise("AxisError") <=> ~ValidAxis(arg.axis, ndim(arg.ar)))

RECURSIVE Binomial(_, _)
Binomial(n, k) ==
    IF k = 0 THEN 1 ELSE IF n = 0 THEN 0 ELSE Binomial(n - 1, k - 1) + Binomial(n - 1, k)

RECURSIVE SumSeq(_)
SumSeq(s) == IF s = <<>> THEN 0 ELSE Head(s) + SumSeq(Tail(s))

MinOf(S) == CHOOSE x \in S : \A y \in S : x <= y

\* S comes before U among the combinations, each written in increasing order
ComesBefore(S, U) == S # U /\ MinOf((S \ U) \cup (U \ S)) \in S

\* the joint value of the variables S in sample j of d (variables x samples)
JointValue(d, S, j) == [i \in S |-> At(d, i, j)]

\* c is a histogram of the joint values of the variables S of d: one positive
\* count for each distinct joint value, the multiplicities of the values
IsJointHistogram(c, d, S) ==
    LET n == d.shape[2]
        values == {JointValue(d, S, j) : j \in 1..n}
        mult(v) == Cardinality({j \in 1..n : JointValue(d, S, j) = v})
    IN  /\ Len(c) = Cardinality(values)
        /\ \A i \in 1..Len(c) : c[i] > 0
        /\ SumSeq(c) = n
        /\ \A m \in 1..n :
              Cardinality({i \in 1..Len(c) : c[i] = m})
                  = Cardinality({v \in values : mult(v) = m})

\* C8: for data with p variables and n samples, histogram(data, r) with
\* 1 <= r <= p yields exactly C(p, r) count vectors, the i-th the joint
\* histogram of the i-th size-r combination of variables in lexicographic
\* order, each with one positive count per distinct joint value and summing to
\* n; with r > p the call raises HistogramError; with r = 0 it returns the
\* joint count vector over all p variables.
C8_HistogramCombinations ==
    op = "histogram" =>
        LET d == as_data_array(arg.ar, arg.axis).val
            p == d.shape[1]
            combs == {S \in SUBSET (1..p) : Cardinality(S) = arg.r}
        IN  IF arg.r > p THEN res = Raise("HistogramError")
            ELSE IF arg.r = 0
            THEN res.ok /\ res.val.kind = "counts"
                 /\ IsJointHistogram(res.val.counts, d, 1..p)
            ELSE /\ res.ok /\ res.val.kind = "generator"
                 /\ Len(res.val.items) = Binomial(p, arg.r)
                 /\ \A S \in combs :
                       LET i == 1 + Cardinality({U \in combs : ComesBefore(U, S)})
                           item == res.val.items[i]
                       IN  item.ok /\ item.val.kind = "counts"
                           /\ IsJointHistogram(item.val.counts, d, S)

\* three variables, two samples, r = 2: the pairs (0,1), (0,2), (1,2) have
\* histograms [2], [1,1], [1,1]
C8_Witness ==
    /\ op = "histogram" /\ arg.r = 2 /\ arg.axis = Some(0)
    /\ arg.ar = Array(<<2, 3>>, <<0, 0, 0, 0, 0, 1>>)
    /\ res.ok
    /\ Len(res.val.items) = 3
    /\ res.val.items[1] = Return(Counts(<<2>>))
    /\ res.val.items[2] = Return(Counts(<<1, 1>>))
    /\ res.val.items[3] = Return(Counts(<<1, 1>>))

\* the data of the call in the canonical orientation (variables x samples)
CallData == as_data_array(arg.ar, arg.axis).val

\* the number of distinct values of variable i of d
Alphabet(d, i) == Cardinality({At(d, i, j) : j \in 1..d.shape[2]})

RECURSIVE ProductOf(_, _)
ProductOf(d, S) ==
    IF S = {} THEN 1
    ELSE LET i == CHOOSE x \in S : TRUE IN Alphabet(d, i) * ProductOf(d, S \ {i})

JointValues(d, S) == {JointValue(d, S, j) : j \in 1..d.shape[2]}

\* C9: from_data(ar) with ks omitted and r == 0 passes to the entropy
\* estimator the joint histogram of ar together with k equal to the number of
\* distinct joint values observed in ar, and returns its estimate.
C9_KIsObservedJointValues ==
    (op = "from_data" /\ arg.ks = NoneK /\ arg.r = 0) =>
        LET h == histogram(arg.ar, arg.axis, 0).val.counts
            joint == Cardinality(JointValues(CallData, 1..CallData.shape[1]))
        IN  res = Return(H(AsFloats(h).flat, Scalar(Num(joint, 0))))

\* C9 as the code has it: from_data(ar) with ks omitted and r == 0 passes to
\* the entropy estimator the joint histogram of ar together with k equal to the
\* product of the numbers of distinct values of the single variables, and
\* returns its estimate.
C9_KIsProductOfAlphabets ==
    (op = "from_data" /\ arg.ks = NoneK /\ arg.r = 0) =>
        LET h == histogram(arg.ar, arg.axis, 0).val.counts
            k == ProductOf(CallData, 1..CallData.shape[1])
        IN  /\ res = Return(H(AsFloats(h).flat, Scalar(Num(k, 0))))
            /\ IsJointHistogram(h, CallData, 1..CallData.shape[1])

\* two variables that take two values each and two joint values
C9_Witness ==
    /\ op = "from_data" /\ arg.ks = NoneK /\ arg.r = 0 /\ arg.axis = Some(0)
    /\ arg.ar = Array(<<2, 2>>, <<0, 0, 1, 1>>)
    /\ res = Return(H(<<Num(1, 0), Num(1, 0)>>, Scalar(Num(4, 0))))

RECURSIVE SortedSeq(_)
SortedSeq(S) == IF S = {} THEN <<>> ELSE <<MinOf(S)>> \o SortedSeq(S \ {MinOf(S)})

\* what from_data gives, with its defaults, for the variables S of d: for one
\* variable its samples as a rank-1 array, for several the samples x variables
\* array of their columns
EntropyOf(d, S) ==
    IF Cardinality(S) = 1
    THEN from_data(Array(<<d.shape[2]>>, Row(d, MinOf(S))), NoneK, Some(0), 0)
    ELSE from_data(T(Stack(d, SortedSeq(S))), NoneK, Some(0), 0)

RECURSIVE InclusionExclusion(_, _)
InclusionExclusion(d, subsets) ==
    IF subsets = {} THEN LinZero
    ELSE LET S == CHOOSE x \in subsets : TRUE IN
         LinAdd(LinScale(IF Cardinality(S) % 2 = 0 THEN -1 ELSE 1, LinOf(EntropyOf(d, S).val)),
                InclusionExclusion(d, subsets \ {S}))

\* C10: mutual_information(ar) with ks omitted and r == 0 on p variables
\* returns -sum_{r=1..p} (-1)^r * (sum of the entropy estimates of the size-r
\* subsets of variables), the entropy of a subset being what from_data gives
\* for it; for p == 2 this is from_data(X) + from_data(Y) - from_data([X, Y]).
C10_InclusionExclusion ==
    (op = "mutual_information" /\ arg.ks = NoneK /\ arg.r = 0) =>
        LET d == CallData
            p == d.shape[1]
        IN  /\ \A S \in SUBSET (1..p) \ {{}} : EntropyOf(d, S).ok
            /\ res = Return(Lin(InclusionExclusion(d, SUBSET (1..p) \ {{}})))
            /\ p = 2 =>
                  res.val.terms =
                      LinAdd(LinAdd(LinOf(EntropyOf(d, {1}).val), LinOf(EntropyOf(d, {2}).val)),
                             LinScale(-1, LinOf(EntropyOf(d, {1, 2}).val)))

\* X = (0, 1), Y = (0, 1): H(X) + H(Y) - H(X, Y) = 2 H([1,1], 2) - H([1,1], 4)
C10_Witness ==
    /\ op = "mutual_information" /\ arg.ks = NoneK /\ arg.r = 0 /\ arg.axis = Some(0)
    /\ arg.ar = Array(<<2, 2>>, <<0, 0, 1, 1>>)
    /\ res.ok
    /\ res.val.terms =
           LinAdd(LinScale(2, LinOf(H(<<Num(1, 0), Num(1, 0)>>, Scalar(Num(2, 0))))),
                  LinScale(-1, LinOf(H(<<Num(1, 0), Num(1, 0)>>, Scalar(Num(4, 0))))))

-----------------------------------------------------------------------------
(* Cardinalities supplied by the caller. *)

\* ks is one valid cardinality for each of p variables
ValidKs(ks, p) ==
    /\ ks.kind = "seq"
    /\ Len(ks.s) = p
    /\ \A i \in 1..p : PositiveWholeInBound(ks.s[i])
    /\ ~SumLogExceeds(ks.s)

\* ks is a sequence of the wrong length, or a scalar
MalformedKs(ks, p) == (ks.kind = "seq" /\ Len(ks.s) # p) \/ ks.kind = "scalar"

\* the entries of ks for the variables S
KsOf(ks, S) == Sequence([i \in 1..Cardinality(S) |-> ks.s[SortedSeq(S)[i]]])

\* what from_data gives for the variables S of d with their cardinalities in ks
EntropyWith(d, ks, S) ==
    from_data(T(Stack(d, SortedSeq(S))), KsOf(ks, S), Some(0), 0)

RECURSIVE InclusionExclusionWith(_, _, _)
InclusionExclusionWith(d, ks, subsets) ==
    IF subsets = {} THEN LinZero
    ELSE LET S == CHOOSE x \in subsets : TRUE IN
         LinAdd(LinScale(IF Cardinality(S) % 2 = 0 THEN -1 ELSE 1,
                         LinOf(EntropyWith(d, ks, S).val)),
                InclusionExclusionWith(d, ks, subsets \ {S}))

\* C11: mutual_information(ar, ks) with r == 0 and ks a sequence of p valid
\* cardinalities returns the inclusion-exclusion estimate computed with those
\* cardinalities; it raises CardinalityError when ks is malformed (a sequence
\* of another length, or a scalar).
C11_SuppliedKsAccepted ==
    (op = "mutual_information" /\ arg.r = 0) =>
        LET d == CallData
            p == d.shape[1]
        IN  /\ MalformedKs(arg.ks, p) => res = Raise("CardinalityError")
            /\ ValidKs(arg.ks, p) =>
                  res = Return(Lin(InclusionExclusionWith(d, arg.ks, SUBSET (1..p) \ {{}})))

\* C12: mutual_information(ar, r=r) with ks omitted and 1 <= r <= p returns a
\* generator that yields without error exactly C(p, r) estimates, the i-th the
\* mutual (interaction) information of the variables of the i-th size-r
\* combination in lexicographic order.
C12_CombinationsYieldEstimates ==
    (op = "mutual_information" /\ arg.ks = NoneK) =>
        LET d == CallData
            p == d.shape[1]
            combs == {S \in SUBSET (1..p) : Cardinality(S) = arg.r}
        IN  (1 <= arg.r /\ arg.r <= p) =>
                /\ res.ok /\ res.val.kind = "generator"
                /\ Len(res.val.items) = Binomial(p, arg.r)
                /\ \A S \in combs :
                      LET i == 1 + Cardinality({U \in combs : ComesBefore(U, S)}) IN
                      res.val.items[i] =
                          Return(Lin(InclusionExclusion(d, SUBSET S \ {{}})))

-----------------------------------------------------------------------------
(* DataArray and its cached ks. *)

MaxReads == 3      \* reads of the ks property of one DataArray

\* DataArray.__new__: the object, with the attributes __array_finalize__ sets
DataArray_new(ar, axis) ==
    IF size(ar.shape) = 0 THEN Raise("DataArrayError")
    ELSE IF ndim(ar) > 2 THEN Raise("DataArrayError")
    ELSE IF ndim(ar) = 1
    THEN Return([data |-> IF axis = Some(0)
                          THEN Array(<<ar.shape[1], 1>>, ar.flat)
                          ELSE Array(<<1, ar.shape[1]>>, ar.flat),
                 _ks |-> NoneValue])
    ELSE Return([data |-> IF axis = Some(0) THEN T(ar) ELSE ar, _ks |-> NoneValue])

\* bool(x) as "not self._ks" takes it: None is false, an array of one element
\* has the truth value of the element, an array of several elements has none
truth_value(x) ==
    IF x = NoneValue THEN Return(FALSE)
    ELSE IF Len(x.s) = 0 THEN Return(FALSE)
    ELSE IF Len(x.s) = 1 THEN Return(x.s[1].n # 0)
    ELSE Raise("ValueError")

\* the object after "self._ks = numpy.array([len(numpy.unique(v)) for v in self])"
with_ks(self) == [self EXCEPT !._ks = observed_ks(self.data)]

\* DataArray.ks, b being the outcome of bool(self._ks): the object after the
\* read and the outcome of the read
ks_read(self, b) ==
    IF ~b.ok THEN [self |-> self, res |-> b]
    ELSE IF ~b.val THEN [self |-> with_ks(self), res |-> Return(with_ks(self)._ks)]
    ELSE [self |-> self, res |-> Return(self._ks)]

DataArray_ks(self) == ks_read(self, truth_value(self._ks))

InitDataArray ==
    /\ estimate_ = NoneValue
    /\ err_ = NoneValue
    /\ op = "init"
    /\ arg \in {[ar |-> a] : a \in DataInputs \cup {Array(<<0>>, <<>>)}}
    /\ res = Return(NoneValue)
    /\ est = NoCall

\* DataArray(ar, axis); arg keeps the object and the number of reads of its ks
NewDataArray ==
    /\ op = "init"
    /\ \E axis \in SampleAxes :
        /\ op' = "DataArray"
        /\ res' = DataArray_new(arg.ar, axis)
        /\ arg' = [ar |-> arg.ar, axis |-> axis, reads |-> 0,
                   self |-> IF res'.ok THEN res'.val ELSE NoneValue]
    /\ UNCHANGED <<estimate_, err_, est>>

\* one read of self.ks; arg.self is the object after the read
ReadKs ==
    /\ op \in {"DataArray", "ks"}
    /\ arg.self # NoneValue
    /\ arg.reads < MaxReads
    /\ op' = "ks"
    /\ res' = DataArray_ks(arg.self).res
    /\ arg' = [arg EXCEPT !.self = DataArray_ks(arg.self).self, !.reads = arg.reads + 1]
    /\ UNCHANGED <<estimate_, err_, est>>

NextDataArray == NewDataArray \/ ReadKs

SpecDataArray == InitDataArray /\ [][NextDataArray]_vars

\* C13: for every DataArray and any number of successive reads of its ks, every
\* read succeeds and returns the per-variable counts of distinct values of the
\* rows, the same value at every read.
C13_KsReadsAgree ==
    op = "ks" => res = Return(observed_ks(arg.self.data))

-----------------------------------------------------------------------------
(* Errors of lazy results. *)

ValidationErrors == {"CountsError", "CardinalityError"}

\* C14: from_data(ar, ks, r) with r > 0 gives no partial results: a CountsError
\* or CardinalityError caused by its inputs is raised by the call itself, so
\* no step of a returned generator raises one, neither at once nor after
\* estimates have been yielded.
C14_NoPartialResults ==
    (op = "from_data" /\ arg.r > 0 /\ res.ok) =>
        \A i \in 1..Len(res.val.items) :
            res.val.items[i].ok \/ res.val.items[i].err \notin ValidationErrors

====
